---- MODULE Spec2Model ----
(***************************************************************************)
(* Verification model of the data-transfer engine (class TransferEngine)  *)
(* of zdhsoft/cms_strapi: bootstrap, integrity check, the five transfer   *)
(* stages with their stream pipelines, the progress counters, the         *)
(* progress event feed and close.                                         *)
(***************************************************************************)
EXTENDS Integers, Sequences, FiniteSets, Bags, TLC

VARIABLES
    options,              \* this.options: versionMatching, exclude
    pc,                   \* position of transfer()
    stage,                \* the stage function transfer() is in ("none" outside)
    bootstrapOps,         \* per side: the provider's bootstrap() operation
    closeOps,             \* per side: the provider's close() operation
    sourceMetadata,       \* local of integrityCheck
    destinationMetadata,  \* local of integrityCheck
    isValidTransfer,      \* local of transfer(): "unset", "valid", "invalid"
    inStream,             \* local of the stage function: "unset", "missing", "stream"
    outStream,            \* local of the stage function: "unset", "missing", "stream"
    transferProgress,     \* this.transferProgress
    progressStream,       \* the events written to #progressStream, in order
    srcState,             \* source stream: "none", "flowing", "ended", "errored"
    dstState,             \* destination sink: "none", "open", "errored", "closed", "errored_closed"
    toRecorder,           \* items the source emitted, not yet transformed
    toDest,               \* items transformed, not yet accepted by the sink
    produced,             \* items the source of the current stage emitted
    sunk,                 \* items the sink of the current stage accepted
    stagePromise,         \* promise of the stage: "none", "pending", "resolved", "rejected"
    stageError,           \* the error the stage promise was rejected with
    thrown,               \* the error transfer() rejected with
    firstRaised,          \* the first error raised inside transfer()
    factoryCalls,         \* the stream factories invoked, as <<stage, side>>
    recorded,             \* per stage: the items that passed the count recorder
    acknowledged,         \* per stage: the items the sink accepted
    sourceVersion,        \* argument of assertStrapiVersionIntegrity
    destinationVersion,   \* argument of assertStrapiVersionIntegrity
    versionCheck          \* its outcome: "unchecked", "pass", "fail"

vars == <<options, pc, stage, bootstrapOps, closeOps, sourceMetadata,
          destinationMetadata, isValidTransfer, inStream, outStream,
          transferProgress, progressStream, srcState, dstState,
          toRecorder, toDest, produced, sunk,
          stagePromise, stageError, thrown, firstRaised, factoryCalls,
          recorded, acknowledged, sourceVersion, destinationVersion,
          versionCheck>>

engineVars == <<pc, stage, bootstrapOps, closeOps, sourceMetadata,
                destinationMetadata, isValidTransfer, inStream, outStream,
                transferProgress, progressStream, srcState, dstState,
                toRecorder, toDest, produced, sunk,
                stagePromise, stageError, thrown, firstRaised, factoryCalls,
                recorded, acknowledged>>

versionVars == <<sourceVersion, destinationVersion, versionCheck>>

-----------------------------------------------------------------------------
(* Bounds *)

\* most items the source streams of one transfer emit, all stages together
MaxItems == 2
\* most items a pipe buffer holds before the upstream is paused
HighWaterMark == 1
\* most characters of a version string in the version-check specification
MaxVersionLen == 3

-----------------------------------------------------------------------------
(* Values *)

Stages == {"schemas", "entities", "links", "media", "configuration"}
StreamStages == {"schemas", "entities", "links", "configuration"}
Sides == {"source", "destination"}

\* The values of options.versionMatching; "undefined" is a missing or
\* unrecognised strategy.
Strategies == {"ignore", "exact", "major", "minor", "patch", "undefined"}

\* The values of options.exclude the model runs with.
ExcludeOptions == {{}, {"links", "media"}}

\* A version string is the sequence of its characters; <<>> is a falsy
\* version (undefined or ''), which line 162 treats alike.
VersionChars == {"1", "2", "."}
NoVersion == <<>>

RECURSIVE StringsUpTo(_)
StringsUpTo(n) ==
    IF n = 0 THEN {<<>>}
    ELSE LET shorter == StringsUpTo(n - 1)
         IN shorter \cup {Append(s, c) : s \in {t \in shorter : Len(t) = n - 1},
                                          c \in VersionChars}

VersionStrings == StringsUpTo(MaxVersionLen)

\* The versions the providers of the transfer specification report.
V123 == <<"1", ".", "2", ".", "3">>
V124 == <<"1", ".", "2", ".", "4">>
V130 == <<"1", ".", "3", ".", "0">>

\* What getMetadata() yields: nothing, or metadata whose strapi.version is
\* a version string or is missing.
NoMetadata == [exists |-> FALSE, version |-> NoVersion]
MetadataValues ==
    {NoMetadata} \cup {[exists |-> TRUE, version |-> v] : v \in {NoVersion, V123, V124, V130}}

\* The items a source stream emits: entities with and without a `type`.
Items == {[id |-> "1"], [id |-> "2", type |-> "a"], [id |-> "33", type |-> "b"]}

NoError == <<>>

RECURSIVE SumOver(_, _)
SumOver(S, f) ==
    IF S = {} THEN 0
    ELSE LET x == CHOOSE y \in S : TRUE
         IN f[x] + SumOver(S \ {x}, f)

\* JSON.stringify(data).length for an object of string fields:
\* {"k":"v","k2":"v2"}
JSONLength(data) ==
    LET keys == DOMAIN data
    IN 2 + (Cardinality(keys) - 1)
         + SumOver(keys, [k \in keys |-> Len(k) + Len(data[k]) + 5])

-----------------------------------------------------------------------------
(* The version check *)

RECURSIVE SplitFrom(_, _, _)
SplitFrom(s, i, token) ==
    IF i > Len(s) THEN <<token>>
    ELSE IF s[i] = "." THEN <<token>> \o SplitFrom(s, i + 1, <<>>)
    ELSE SplitFrom(s, i + 1, Append(token, s[i]))

\* version.split('.')
split(version) == SplitFrom(version, 1, <<>>)

\* sourceTokens.map((value, index) => value === destinationTokens[index])
tokenMatches(sourceTokens, destinationTokens) ==
    [index \in 1..Len(sourceTokens) |->
        index <= Len(destinationTokens)
        /\ sourceTokens[index] = destinationTokens[index]]

\* const [major, minor, patch] = ...: a position past the end is undefined,
\* which is falsy.
destructured(flags, index) == index <= Len(flags) /\ flags[index]

\* assertStrapiVersionIntegrity without the early return of line 162.
assertWithoutAbsentReturn(strategy, sVersion, dVersion) ==
    IF strategy = "ignore" THEN TRUE
    ELSE IF strategy = "exact" /\ sVersion = dVersion THEN TRUE
    ELSE LET flags == tokenMatches(split(sVersion), split(dVersion))
             major == destructured(flags, 1)
             minor == destructured(flags, 2)
             patch == destructured(flags, 3)
         IN \/ strategy = "major" /\ major
            \/ strategy = "minor" /\ major /\ minor
            \/ strategy = "patch" /\ major /\ minor /\ patch

\* TRUE when assertStrapiVersionIntegrity returns, FALSE when it throws.
assertStrapiVersionIntegrity(strategy, sVersion, dVersion) ==
    IF sVersion = NoVersion \/ dVersion = NoVersion THEN TRUE
    ELSE IF strategy = "ignore" THEN TRUE
    ELSE IF strategy = "exact" /\ sVersion = dVersion THEN TRUE
    ELSE LET flags == tokenMatches(split(sVersion), split(dVersion))
             major == destructured(flags, 1)
             minor == destructured(flags, 2)
             patch == destructured(flags, 3)
         IN \/ strategy = "major" /\ major
            \/ strategy = "minor" /\ major /\ minor
            \/ strategy = "patch" /\ major /\ minor /\ patch

\* The error assertStrapiVersionIntegrity throws.
VersionError(strategy) == <<"versions do not match", strategy>>
\* The error transfer() throws when integrityCheck() returned false.
UnableToTransferError == <<"unable to transfer">>
\* The error a stage function throws for a missing stream.
MissingStreamError(name, side) == <<"stream is missing", name, side>>
\* An error of a provider: a rejected operation or a stream's 'error' event.
ProviderError(what, side) == <<"provider", what, side>>

-----------------------------------------------------------------------------
(* The progress model and the event feed *)

NewEntry == [count |-> 0, bytes |-> 0]

\* #incrementTransferProgress adding the size to the aggregate bucket only.
incrementWithoutBytes(progress, name, data, aggregateKey) ==
    LET created == IF name \in DOMAIN progress THEN progress
                   ELSE (name :> NewEntry) @@ progress
        size == JSONLength(data)
        counted == [created[name] EXCEPT !.count = @ + 1]
        entry ==
            IF aggregateKey # "" /\ aggregateKey \in DOMAIN data
            THEN LET aggKeyValue == data[aggregateKey]
                     aggregates == IF "aggregates" \in DOMAIN counted
                                   THEN counted.aggregates ELSE <<>>
                     bucketed == IF aggKeyValue \in DOMAIN aggregates THEN aggregates
                                 ELSE (aggKeyValue :> NewEntry) @@ aggregates
                     updated == [bucketed EXCEPT ![aggKeyValue] =
                                    [count |-> @.count + 1, bytes |-> @.bytes + size]]
                 IN [k \in DOMAIN counted \cup {"aggregates"} |->
                        IF k = "aggregates" THEN updated ELSE counted[k]]
            ELSE counted
    IN [created EXCEPT ![name] = entry]

\* #incrementTransferProgress; aggregateKey "" is no aggregate key.  The
\* aggregate key values are content-type names, which _.has looks up as
\* own keys of the aggregates object.
incrementTransferProgress(progress, name, data, aggregateKey) ==
    LET created == IF name \in DOMAIN progress THEN progress
                   ELSE (name :> NewEntry) @@ progress
        size == JSONLength(data)
        counted == [created[name] EXCEPT !.count = @ + 1, !.bytes = @ + size]
        entry ==
            IF aggregateKey # "" /\ aggregateKey \in DOMAIN data
            THEN LET aggKeyValue == data[aggregateKey]
                     aggregates == IF "aggregates" \in DOMAIN counted
                                   THEN counted.aggregates ELSE <<>>
                     bucketed == IF aggKeyValue \in DOMAIN aggregates THEN aggregates
                                 ELSE (aggKeyValue :> NewEntry) @@ aggregates
                     updated == [bucketed EXCEPT ![aggKeyValue] =
                                    [count |-> @.count + 1, bytes |-> @.bytes + size]]
                 IN [k \in DOMAIN counted \cup {"aggregates"} |->
                        IF k = "aggregates" THEN updated ELSE counted[k]]
            ELSE counted
    IN [created EXCEPT ![name] = entry]

\* Every count recorder created with the aggregate key of the entities.
aggregateKeyEverywhere(name) == "type"

\* The aggregate key each stage's count recorder is created with.
aggregateKeyOf(name) == IF name = "entities" THEN "type" ELSE ""

\* #updateStep and the write in #countRecorder: one event on the feed.
Event(type, name) == [type |-> type, name |-> name]
updateStep(feed, type, name) == Append(feed, Event(type, name))

\* transfer() awaiting transferLinks() before transferMedia().
StageOrderLinksFirst == <<"schemas", "entities", "links", "media", "configuration">>

\* The order in which transfer() awaits the stage functions.
StageOrder == <<"schemas", "entities", "media", "links", "configuration">>

IndexOf(name) == CHOOSE i \in 1..Len(StageOrder) : StageOrder[i] = name

\* Where transfer() continues after the stage `name` resolved.
pcOfStage(name) == IF name = "media" THEN "stage_media" ELSE "stage_source"

pcAfter(name) ==
    IF IndexOf(name) = Len(StageOrder) THEN "close"
    ELSE pcOfStage(StageOrder[IndexOf(name) + 1])

stageAfter(name) ==
    IF IndexOf(name) = Len(StageOrder) THEN "none"
    ELSE StageOrder[IndexOf(name) + 1]

\* The first error raised inside transfer() is remembered.
Raise(error) ==
    firstRaised' = IF firstRaised = NoError THEN error ELSE firstRaised

\* A stage promise that a later reject() settles again.
RejectOverwrites(error) ==
    IF stagePromise \in {"pending", "rejected"}
    THEN stagePromise' = "rejected" /\ stageError' = error
    ELSE UNCHANGED <<stagePromise, stageError>>

\* reject(error) of the stage promise: only the first settlement counts.
Reject(error) ==
    IF stagePromise = "pending"
    THEN stagePromise' = "rejected" /\ stageError' = error
    ELSE UNCHANGED <<stagePromise, stageError>>

streamVars == <<srcState, dstState, toRecorder, toDest, produced, sunk>>
checkVars == <<sourceMetadata, destinationMetadata, isValidTransfer>>
ghostVars == <<factoryCalls, recorded, acknowledged>>

-----------------------------------------------------------------------------
(* The state after construction *)

Idle == [side \in Sides |-> "idle"]

EngineInit ==
    /\ pc = "constructed"
    /\ stage = "none"
    /\ bootstrapOps = Idle
    /\ closeOps = Idle
    /\ sourceMetadata = NoMetadata
    /\ destinationMetadata = NoMetadata
    /\ isValidTransfer = "unset"
    /\ inStream = "unset"
    /\ outStream = "unset"
    /\ transferProgress = <<>>
    /\ progressStream = <<>>
    /\ srcState = "none"
    /\ dstState = "none"
    /\ toRecorder = <<>>
    /\ toDest = <<>>
    /\ produced = <<>>
    /\ sunk = <<>>
    /\ stagePromise = "none"
    /\ stageError = NoError
    /\ thrown = NoError
    /\ firstRaised = NoError
    /\ factoryCalls = {}
    /\ recorded = [name \in Stages |-> EmptyBag]
    /\ acknowledged = [name \in Stages |-> EmptyBag]

Init ==
    /\ options \in [versionMatching : Strategies, exclude : ExcludeOptions]
    /\ EngineInit
    /\ sourceVersion = NoVersion
    /\ destinationVersion = NoVersion
    /\ versionCheck = "unchecked"

-----------------------------------------------------------------------------
(* transfer(): bootstrap *)

\* transfer() is called: boostrap() starts the bootstrap operation of each
\* provider that has one, before awaiting either.
TransferStart ==
    /\ pc = "constructed"
    /\ \E ops \in [Sides -> {"absent", "running"}] : bootstrapOps' = ops
    /\ pc' = "bootstrapping"
    /\ UNCHANGED <<options, stage, closeOps, checkVars, inStream, outStream,
                   transferProgress, progressStream, streamVars, stagePromise,
                   stageError, thrown, firstRaised, ghostVars, versionVars>>

BootstrapDone(side) ==
    /\ bootstrapOps[side] = "running"
    /\ bootstrapOps' = [bootstrapOps EXCEPT ![side] = "done"]
    /\ UNCHANGED <<options, pc, stage, closeOps, checkVars, inStream, outStream,
                   transferProgress, progressStream, streamVars, stagePromise,
                   stageError, thrown, firstRaised, ghostVars, versionVars>>

\* A bootstrap operation rejects: Promise.all rejects with the first
\* rejection and transfer() rethrows it.
BootstrapFails(side) ==
    /\ bootstrapOps[side] = "running"
    /\ bootstrapOps' = [bootstrapOps EXCEPT ![side] = "failed"]
    /\ Raise(ProviderError("bootstrap", side))
    /\ IF pc = "bootstrapping"
       THEN pc' = "failed" /\ thrown' = ProviderError("bootstrap", side)
       ELSE UNCHANGED <<pc, thrown>>
    /\ UNCHANGED <<options, stage, closeOps, checkVars, inStream, outStream,
                   transferProgress, progressStream, streamVars, stagePromise,
                   stageError, ghostVars, versionVars>>

\* boostrap() resolving as soon as one operation is over.
BootstrapResolvedAfterFirst ==
    /\ pc = "bootstrapping"
    /\ \E side \in Sides : bootstrapOps[side] \in {"absent", "done"}
    /\ \A side \in Sides : bootstrapOps[side] # "failed"
    /\ pc' = "integrity_source"
    /\ bootstrapOps' = Idle
    /\ UNCHANGED <<options, stage, closeOps, checkVars, inStream,
                   outStream, transferProgress, progressStream, streamVars,
                   stagePromise, stageError, thrown, firstRaised, ghostVars,
                   versionVars>>

\* Both operations are over: boostrap() resolves, and the operations are
\* forgotten.
BootstrapResolved ==
    /\ pc = "bootstrapping"
    /\ \A side \in Sides : bootstrapOps[side] \in {"absent", "done"}
    /\ pc' = "integrity_source"
    /\ bootstrapOps' = Idle
    /\ UNCHANGED <<options, stage, closeOps, checkVars, inStream,
                   outStream, transferProgress, progressStream, streamVars,
                   stagePromise, stageError, thrown, firstRaised, ghostVars,
                   versionVars>>

-----------------------------------------------------------------------------
(* transfer(): integrityCheck() *)

GetSourceMetadata ==
    /\ pc = "integrity_source"
    /\ \E metadata \in MetadataValues : sourceMetadata' = metadata
    /\ pc' = "integrity_destination"
    /\ UNCHANGED <<options, stage, bootstrapOps, closeOps, destinationMetadata,
                   isValidTransfer, inStream, outStream, transferProgress,
                   progressStream, streamVars, stagePromise, stageError, thrown,
                   firstRaised, ghostVars, versionVars>>

GetDestinationMetadata ==
    /\ pc = "integrity_destination"
    /\ \E metadata \in MetadataValues : destinationMetadata' = metadata
    /\ pc' = "integrity_assert"
    /\ UNCHANGED <<options, stage, bootstrapOps, closeOps, sourceMetadata,
                   isValidTransfer, inStream, outStream, transferProgress,
                   progressStream, streamVars, stagePromise, stageError, thrown,
                   firstRaised, ghostVars, versionVars>>

\* getMetadata() of a provider rejects: integrityCheck() and transfer()
\* reject with that error.
GetMetadataFails ==
    /\ pc \in {"integrity_source", "integrity_destination"}
    /\ LET side == IF pc = "integrity_source" THEN "source" ELSE "destination"
       IN /\ Raise(ProviderError("getMetadata", side))
          /\ thrown' = ProviderError("getMetadata", side)
    /\ pc' = "failed"
    /\ UNCHANGED <<options, stage, bootstrapOps, closeOps, checkVars, inStream,
                   outStream, transferProgress, progressStream, streamVars,
                   stagePromise, stageError, ghostVars, versionVars>>

\* The result of integrityCheck() once both metadata are there.
integrityCheck(strategy, sMetadata, dMetadata) ==
    IF ~sMetadata.exists \/ ~dMetadata.exists THEN TRUE
    ELSE assertStrapiVersionIntegrity(strategy, sMetadata.version, dMetadata.version)

\* Lines 216-234: the version check; its error is caught and logged, and
\* integrityCheck() returns false.
IntegrityCheck ==
    /\ pc = "integrity_assert"
    /\ LET strategy == options.versionMatching
           passed == integrityCheck(strategy, sourceMetadata, destinationMetadata)
       IN /\ isValidTransfer' = IF passed THEN "valid" ELSE "invalid"
          /\ IF passed THEN UNCHANGED firstRaised
             ELSE Raise(VersionError(strategy))
    /\ pc' = "integrity_done"
    /\ UNCHANGED <<options, stage, bootstrapOps, closeOps, sourceMetadata,
                   destinationMetadata, inStream, outStream, transferProgress,
                   progressStream, streamVars, stagePromise, stageError, thrown,
                   ghostVars, versionVars>>

\* transfer() entering the first stage whatever integrityCheck() returned.
TransferCheckedIgnoringResult ==
    /\ pc = "integrity_done"
    /\ pc' = pcOfStage(StageOrder[1])
    /\ stage' = StageOrder[1]
    /\ sourceMetadata' = NoMetadata
    /\ destinationMetadata' = NoMetadata
    /\ UNCHANGED <<thrown, firstRaised>>
    /\ UNCHANGED <<options, bootstrapOps, closeOps, isValidTransfer, inStream,
                   outStream, transferProgress, progressStream, streamVars,
                   stagePromise, stageError, ghostVars, versionVars>>

\* Lines 243-248: transfer() throws when the check failed, and otherwise
\* enters the first stage.
TransferChecked ==
    /\ pc = "integrity_done"
    /\ IF isValidTransfer = "invalid"
       THEN /\ Raise(UnableToTransferError)
            /\ thrown' = UnableToTransferError
            /\ pc' = "failed"
            /\ UNCHANGED <<stage, sourceMetadata, destinationMetadata>>
       ELSE /\ pc' = pcOfStage(StageOrder[1])
            /\ stage' = StageOrder[1]
            /\ sourceMetadata' = NoMetadata
            /\ destinationMetadata' = NoMetadata
            /\ UNCHANGED <<thrown, firstRaised>>
    /\ UNCHANGED <<options, bootstrapOps, closeOps, isValidTransfer, inStream,
                   outStream, transferProgress, progressStream, streamVars,
                   stagePromise, stageError, ghostVars, versionVars>>

-----------------------------------------------------------------------------
(* The streaming stages: transferSchemas, transferEntities, transferLinks,
   transferConfiguration *)

\* const inStream = await this.sourceProvider.stream<Stage>?.(): a provider
\* without the capability yields undefined and nothing is invoked.
StageSourceFactory ==
    /\ pc = "stage_source"
    /\ \E found \in {"missing", "stream"} :
          /\ inStream' = found
          /\ factoryCalls' = IF found = "stream"
                             THEN factoryCalls \cup {<<stage, "source">>}
                             ELSE factoryCalls
    /\ pc' = "stage_destination"
    /\ UNCHANGED <<options, stage, bootstrapOps, closeOps, checkVars, outStream,
                   transferProgress, progressStream, streamVars, stagePromise,
                   stageError, thrown, firstRaised, recorded, acknowledged,
                   versionVars>>

\* const outStream = await this.destinationProvider.get<Stage>Stream?.()
StageDestinationFactory ==
    /\ pc = "stage_destination"
    /\ \E found \in {"missing", "stream"} :
          /\ outStream' = found
          /\ factoryCalls' = IF found = "stream"
                             THEN factoryCalls \cup {<<stage, "destination">>}
                             ELSE factoryCalls
    /\ pc' = "stage_check"
    /\ UNCHANGED <<options, stage, bootstrapOps, closeOps, checkVars, inStream,
                   transferProgress, progressStream, streamVars, stagePromise,
                   stageError, thrown, firstRaised, recorded, acknowledged,
                   versionVars>>

\* A stream factory of a provider rejects: the stage function and
\* transfer() reject with that error.
StageFactoryFails ==
    /\ pc \in {"stage_source", "stage_destination"}
    /\ LET side == IF pc = "stage_source" THEN "source" ELSE "destination"
       IN /\ Raise(ProviderError("factory", side))
          /\ thrown' = ProviderError("factory", side)
          /\ factoryCalls' = factoryCalls \cup {<<stage, side>>}
    /\ pc' = "failed"
    /\ UNCHANGED <<options, stage, bootstrapOps, closeOps, checkVars, inStream,
                   outStream, transferProgress, progressStream, streamVars,
                   stagePromise, stageError, recorded, acknowledged, versionVars>>

\* The stage function looking at the destination stream first.
missingStreamDestinationFirst(name, in, out) ==
    IF out = "missing" THEN MissingStreamError(name, "destination")
    ELSE IF in = "missing" THEN MissingStreamError(name, "source")
    ELSE NoError

\* The error the stage function throws for the streams it got, NoError
\* when both are there: the source is looked at first.
missingStream(name, in, out) ==
    IF in = "missing" THEN MissingStreamError(name, "source")
    ELSE IF out = "missing" THEN MissingStreamError(name, "destination")
    ELSE NoError

\* if (!inStream) throw ...; if (!outStream) throw ...
StageMissingStream ==
    /\ pc = "stage_check"
    /\ missingStream(stage, inStream, outStream) # NoError
    /\ Raise(missingStream(stage, inStream, outStream))
    /\ thrown' = missingStream(stage, inStream, outStream)
    /\ pc' = "failed"
    /\ UNCHANGED <<options, stage, bootstrapOps, closeOps, checkVars, inStream,
                   outStream, transferProgress, progressStream, streamVars,
                   stagePromise, stageError, ghostVars, versionVars>>

\* this.#updateStep('start', stepName), the handlers and the pipe
\* inStream.pipe(this.#countRecorder(stepName)).pipe(outStream).
StageStart ==
    /\ pc = "stage_check"
    /\ missingStream(stage, inStream, outStream) = NoError
    /\ progressStream' = updateStep(progressStream, "start", stage)
    /\ stagePromise' = "pending"
    /\ srcState' = "flowing"
    /\ dstState' = "open"
    /\ toRecorder' = <<>>
    /\ toDest' = <<>>
    /\ produced' = <<>>
    /\ sunk' = <<>>
    /\ pc' = "stage_streaming"
    /\ UNCHANGED <<options, stage, bootstrapOps, closeOps, checkVars, inStream,
                   outStream, transferProgress, stageError, thrown, firstRaised,
                   ghostVars, versionVars>>

\* The number of items the source streams have emitted so far.
Emitted ==
    SumOver(Stages, [name \in Stages |-> BagCardinality(recorded[name])])
    + Len(toRecorder)

\* A source whose items are written to the recorder without regard to its
\* full buffer.
SourceEmitIgnoringBackpressure ==
    /\ srcState = "flowing"
    /\ Emitted < MaxItems
    /\ \E item \in Items :
          /\ toRecorder' = Append(toRecorder, item)
          /\ produced' = Append(produced, item)
    /\ UNCHANGED <<options, pc, stage, bootstrapOps, closeOps, checkVars,
                   inStream, outStream, transferProgress, progressStream,
                   srcState, dstState, toDest, sunk, stagePromise, stageError,
                   thrown, firstRaised, ghostVars, versionVars>>

\* The source stream emits an item into the pipe; a full buffer of the
\* recorder pauses the source.
SourceEmit ==
    /\ srcState = "flowing"
    /\ Emitted < MaxItems
    /\ Len(toRecorder) < HighWaterMark
    /\ \E item \in Items :
          /\ toRecorder' = Append(toRecorder, item)
          /\ produced' = Append(produced, item)
    /\ UNCHANGED <<options, pc, stage, bootstrapOps, closeOps, checkVars,
                   inStream, outStream, transferProgress, progressStream,
                   srcState, dstState, toDest, sunk, stagePromise, stageError,
                   thrown, firstRaised, ghostVars, versionVars>>

\* The source stream ends.
SourceEnd ==
    /\ srcState = "flowing"
    /\ srcState' = "ended"
    /\ UNCHANGED <<options, pc, stage, bootstrapOps, closeOps, checkVars,
                   inStream, outStream, transferProgress, progressStream,
                   dstState, toRecorder, toDest, produced, sunk, stagePromise,
                   stageError, thrown, firstRaised, ghostVars, versionVars>>

\* The source stream emits 'error': the handler rejects the stage promise.
SourceError ==
    /\ srcState = "flowing"
    /\ srcState' = "errored"
    /\ Raise(ProviderError("stream", "source"))
    /\ Reject(ProviderError("stream", "source"))
    /\ UNCHANGED <<options, pc, stage, bootstrapOps, closeOps, checkVars,
                   inStream, outStream, transferProgress, progressStream,
                   dstState, toRecorder, toDest, produced, sunk, thrown,
                   ghostVars, versionVars>>

\* A transform that counts the item and writes no progress event.
RecorderTransformSilent ==
    /\ toRecorder # <<>>
    /\ Len(toDest) < HighWaterMark
    /\ LET data == Head(toRecorder)
       IN /\ transferProgress' = incrementTransferProgress(
                 transferProgress, stage, data, aggregateKeyOf(stage))
          /\ toDest' = Append(toDest, data)
          /\ recorded' = [recorded EXCEPT ![stage] = @ (+) SetToBag({data})]
    /\ toRecorder' = Tail(toRecorder)
    /\ UNCHANGED <<options, pc, stage, bootstrapOps, closeOps, checkVars,
                   inStream, outStream, progressStream, srcState, dstState,
                   produced, sunk, stagePromise, stageError, thrown,
                   firstRaised, factoryCalls, acknowledged, versionVars>>

\* A transform that counts the item and calls back without it.
RecorderTransformDropsItem ==
    /\ toRecorder # <<>>
    /\ Len(toDest) < HighWaterMark
    /\ LET data == Head(toRecorder)
       IN /\ transferProgress' = incrementTransferProgress(
                 transferProgress, stage, data, aggregateKeyOf(stage))
          /\ progressStream' = updateStep(progressStream, "progress", stage)
          /\ recorded' = [recorded EXCEPT ![stage] = @ (+) SetToBag({data})]
    /\ toRecorder' = Tail(toRecorder)
    /\ UNCHANGED <<options, pc, stage, bootstrapOps, closeOps, checkVars,
                   inStream, outStream, srcState, dstState, toDest, produced,
                   sunk, stagePromise, stageError, thrown, firstRaised,
                   factoryCalls, acknowledged, versionVars>>

\* The transform of #countRecorder on the next item: count it, write a
\* progress event, pass the item on unchanged.
RecorderTransform ==
    /\ toRecorder # <<>>
    /\ Len(toDest) < HighWaterMark
    /\ LET data == Head(toRecorder)
       IN /\ transferProgress' = incrementTransferProgress(
                 transferProgress, stage, data, aggregateKeyOf(stage))
          /\ progressStream' = updateStep(progressStream, "progress", stage)
          /\ toDest' = Append(toDest, data)
          /\ recorded' = [recorded EXCEPT ![stage] = @ (+) SetToBag({data})]
    /\ toRecorder' = Tail(toRecorder)
    /\ UNCHANGED <<options, pc, stage, bootstrapOps, closeOps, checkVars,
                   inStream, outStream, srcState, dstState, produced, sunk,
                   stagePromise, stageError, thrown, firstRaised, factoryCalls,
                   acknowledged, versionVars>>

\* The destination sink accepts the next item.
DestinationAccept ==
    /\ dstState = "open"
    /\ toDest # <<>>
    /\ sunk' = Append(sunk, Head(toDest))
    /\ acknowledged' = [acknowledged EXCEPT ![stage] = @ (+) SetToBag({Head(toDest)})]
    /\ toDest' = Tail(toDest)
    /\ UNCHANGED <<options, pc, stage, bootstrapOps, closeOps, checkVars,
                   inStream, outStream, transferProgress, progressStream,
                   srcState, dstState, toRecorder, produced, stagePromise,
                   stageError, thrown, firstRaised, factoryCalls, recorded,
                   versionVars>>

\* The destination sink emits 'error': the handler rejects the stage promise.
DestinationError ==
    /\ dstState = "open"
    /\ dstState' = "errored"
    /\ Raise(ProviderError("stream", "destination"))
    /\ Reject(ProviderError("stream", "destination"))
    /\ UNCHANGED <<options, pc, stage, bootstrapOps, closeOps, checkVars,
                   inStream, outStream, transferProgress, progressStream,
                   srcState, toRecorder, toDest, produced, sunk, thrown,
                   ghostVars, versionVars>>

\* A 'close' handler that writes the complete event and never resolves.
DestinationCloseWithoutResolve ==
    /\ \/ /\ dstState = "open"
          /\ srcState = "ended"
          /\ toRecorder = <<>>
          /\ toDest = <<>>
          /\ dstState' = "closed"
       \/ /\ dstState = "errored"
          /\ dstState' = "errored_closed"
    /\ progressStream' = updateStep(progressStream, "complete", stage)
    /\ UNCHANGED <<options, pc, stage, bootstrapOps, closeOps, checkVars,
                   inStream, outStream, transferProgress, srcState, toRecorder,
                   toDest, produced, sunk, stagePromise, stageError, thrown,
                   firstRaised, ghostVars, versionVars>>

\* The 'close' handler of the sink: #updateStep('complete') and resolve().
\* The sink closes once it has drained an ended source, or after its error.
DestinationClose ==
    /\ \/ /\ dstState = "open"
          /\ srcState = "ended"
          /\ toRecorder = <<>>
          /\ toDest = <<>>
          /\ dstState' = "closed"
       \/ /\ dstState = "errored"
          /\ dstState' = "errored_closed"
    /\ progressStream' = updateStep(progressStream, "complete", stage)
    /\ stagePromise' = IF stagePromise = "pending" THEN "resolved" ELSE stagePromise
    /\ UNCHANGED <<options, pc, stage, bootstrapOps, closeOps, checkVars,
                   inStream, outStream, transferProgress, srcState, toRecorder,
                   toDest, produced, sunk, stageError, thrown, firstRaised,
                   ghostVars, versionVars>>

\* await of the stage function in transfer(): the stage resolved, the next
\* one (or close) follows.
StageResolved ==
    /\ pc = "stage_streaming"
    /\ stagePromise = "resolved"
    /\ pc' = pcAfter(stage)
    /\ stage' = stageAfter(stage)
    /\ stagePromise' = "none"
    /\ inStream' = "unset"
    /\ outStream' = "unset"
    /\ srcState' = "none"
    /\ dstState' = "none"
    /\ produced' = <<>>
    /\ sunk' = <<>>
    /\ UNCHANGED <<options, bootstrapOps, closeOps, checkVars, transferProgress,
                   progressStream, toRecorder, toDest, stageError, thrown,
                   firstRaised, ghostVars, versionVars>>

\* transfer() catching the error of a stage and going on with the next.
StageRejectedContinues ==
    /\ pc = "stage_streaming"
    /\ stagePromise = "rejected"
    /\ pc' = pcAfter(stage)
    /\ stage' = stageAfter(stage)
    /\ UNCHANGED <<options, bootstrapOps, closeOps, checkVars, inStream,
                   outStream, transferProgress, progressStream, streamVars,
                   stagePromise, stageError, thrown, firstRaised, ghostVars,
                   versionVars>>

\* await of the stage function in transfer(): the stage rejected, and
\* transfer() rethrows its error.
StageRejected ==
    /\ pc = "stage_streaming"
    /\ stagePromise = "rejected"
    /\ pc' = "failed"
    /\ thrown' = stageError
    /\ UNCHANGED <<options, stage, bootstrapOps, closeOps, checkVars, inStream,
                   outStream, transferProgress, progressStream, streamVars,
                   stagePromise, stageError, firstRaised, ghostVars, versionVars>>

-----------------------------------------------------------------------------
(* transferMedia *)

\* transferMedia() without the 'complete' step.
TransferMediaWithoutComplete ==
    /\ pc = "stage_media"
    /\ progressStream' = updateStep(progressStream, "start", stage)
    /\ pc' = pcAfter(stage)
    /\ stage' = stageAfter(stage)
    /\ UNCHANGED <<options, bootstrapOps, closeOps, checkVars, inStream,
                   outStream, transferProgress, streamVars, stagePromise,
                   stageError, thrown, firstRaised, ghostVars, versionVars>>

TransferMedia ==
    /\ pc = "stage_media"
    /\ progressStream' = updateStep(updateStep(progressStream, "start", stage),
                                    "complete", stage)
    /\ pc' = pcAfter(stage)
    /\ stage' = stageAfter(stage)
    /\ UNCHANGED <<options, bootstrapOps, closeOps, checkVars, inStream,
                   outStream, transferProgress, streamVars, stagePromise,
                   stageError, thrown, firstRaised, ghostVars, versionVars>>

-----------------------------------------------------------------------------
(* close() and the end of transfer() *)

\* close() starts the close operation of each provider that has one.
CloseStart ==
    /\ pc = "close"
    /\ \E ops \in [Sides -> {"absent", "running"}] : closeOps' = ops
    /\ pc' = "closing"
    /\ UNCHANGED <<options, stage, bootstrapOps, checkVars, inStream, outStream,
                   transferProgress, progressStream, streamVars, stagePromise,
                   stageError, thrown, firstRaised, ghostVars, versionVars>>

CloseDone(side) ==
    /\ closeOps[side] = "running"
    /\ closeOps' = [closeOps EXCEPT ![side] = "done"]
    /\ UNCHANGED <<options, pc, stage, bootstrapOps, checkVars, inStream,
                   outStream, transferProgress, progressStream, streamVars,
                   stagePromise, stageError, thrown, firstRaised, ghostVars,
                   versionVars>>

CloseFails(side) ==
    /\ closeOps[side] = "running"
    /\ closeOps' = [closeOps EXCEPT ![side] = "failed"]
    /\ Raise(ProviderError("close", side))
    /\ IF pc = "closing"
       THEN pc' = "failed" /\ thrown' = ProviderError("close", side)
       ELSE UNCHANGED <<pc, thrown>>
    /\ UNCHANGED <<options, stage, bootstrapOps, checkVars, inStream, outStream,
                   transferProgress, progressStream, streamVars, stagePromise,
                   stageError, ghostVars, versionVars>>

\* transfer() returning as soon as one close operation is over.
TransferReturnsAfterFirstClose ==
    /\ pc = "closing"
    /\ \E side \in Sides : closeOps[side] \in {"absent", "done"}
    /\ pc' = "succeeded"
    /\ UNCHANGED <<options, stage, bootstrapOps, closeOps, checkVars, inStream,
                   outStream, transferProgress, progressStream, streamVars,
                   stagePromise, stageError, thrown, firstRaised, ghostVars,
                   versionVars>>

\* Both close operations are over: transfer() returns the results.
TransferReturns ==
    /\ pc = "closing"
    /\ \A side \in Sides : closeOps[side] \in {"absent", "done"}
    /\ pc' = "succeeded"
    /\ UNCHANGED <<options, stage, bootstrapOps, closeOps, checkVars, inStream,
                   outStream, transferProgress, progressStream, streamVars,
                   stagePromise, stageError, thrown, firstRaised, ghostVars,
                   versionVars>>

-----------------------------------------------------------------------------
(* The specification of transfer() *)

Next ==
    \/ TransferStart
    \/ \E side \in Sides : BootstrapDone(side)
    \/ \E side \in Sides : BootstrapFails(side)
    \/ BootstrapResolved
    \/ GetSourceMetadata
    \/ GetDestinationMetadata
    \/ GetMetadataFails
    \/ IntegrityCheck
    \/ TransferChecked
    \/ StageSourceFactory
    \/ StageDestinationFactory
    \/ StageFactoryFails
    \/ StageMissingStream
    \/ StageStart
    \/ SourceEmit
    \/ SourceEnd
    \/ SourceError
    \/ RecorderTransform
    \/ DestinationAccept
    \/ DestinationError
    \/ DestinationClose
    \/ StageResolved
    \/ StageRejected
    \/ TransferMedia
    \/ CloseStart
    \/ \E side \in Sides : CloseDone(side)
    \/ \E side \in Sides : CloseFails(side)
    \/ TransferReturns

Spec == Init /\ [][Next]_vars

\* transfer() under fairness: a provider operation that was started
\* settles, a source stream ends or fails, a sink accepts, fails or
\* closes, and a continuation of transfer() that can run does run.
\* The liveness runs take the strategies that decide on the versions and
\* one that ignores them.
LiveInit ==
    /\ options \in [versionMatching : {"ignore", "exact"}, exclude : {{}}]
    /\ EngineInit
    /\ sourceVersion = NoVersion
    /\ destinationVersion = NoVersion
    /\ versionCheck = "unchecked"

LiveSpec == LiveInit /\ [][Next]_vars /\ WF_vars(Next)

-----------------------------------------------------------------------------
(* The specification of the version check alone: every pair of version
   strings up to MaxVersionLen characters under every strategy *)

InitVersion ==
    /\ options \in [versionMatching : Strategies, exclude : {{}}]
    /\ EngineInit
    /\ sourceVersion \in VersionStrings
    /\ destinationVersion \in VersionStrings
    /\ versionCheck = "unchecked"

AssertVersion ==
    /\ versionCheck = "unchecked"
    /\ versionCheck' =
          IF assertStrapiVersionIntegrity(options.versionMatching,
                                          sourceVersion, destinationVersion)
          THEN "pass" ELSE "fail"
    /\ UNCHANGED <<options, engineVars, sourceVersion, destinationVersion>>

NextVersion == AssertVersion

SpecVersion == InitVersion /\ [][NextVersion]_vars

-----------------------------------------------------------------------------
(* Properties *)

IsBoundary(event) == event.type # "progress"

\* The start and complete events of the feed, in order.
Boundaries == SelectSeq(progressStream, IsBoundary)

\* start(s1) complete(s1) start(s2) complete(s2) ... for an order of stages
BoundariesOf(order) ==
    [i \in 1..(2 * Len(order)) |->
        IF i % 2 = 1 THEN Event("start", order[(i + 1) \div 2])
        ELSE Event("complete", order[i \div 2])]

EventCount(type, name) ==
    Cardinality({i \in DOMAIN progressStream : progressStream[i] = Event(type, name)})

\* C1 as the specification states it: a successful transfer() shows the
\* stage boundaries in the order schemas, entities, links, media,
\* configuration.
C1_SpecOrder ==
    pc = "succeeded" =>
        Boundaries = BoundariesOf(<<"schemas", "entities", "links", "media", "configuration">>)

\* C1, amended: a successful transfer() shows the stage boundaries in the
\* order schemas, entities, media, links, configuration, each stage's
\* complete before the next stage's start.
C1_StageOrder ==
    pc = "succeeded" =>
        Boundaries = BoundariesOf(<<"schemas", "entities", "media", "links", "configuration">>)

C1_Witness ==
    /\ pc = "succeeded"
    /\ EventCount("progress", "links") > 0
    /\ EventCount("progress", "entities") > 0

\* Every event of the feed continues the stage that is open, or opens a
\* stage when none is open: start follows nothing or a complete; progress
\* and complete of a stage follow the start or a progress of that stage.
WellNested(feed) ==
    \A i \in DOMAIN feed :
        IF feed[i].type = "start"
        THEN i = 1 \/ feed[i - 1].type = "complete"
        ELSE /\ i > 1
             /\ feed[i - 1].name = feed[i].name
             /\ feed[i - 1].type \in {"start", "progress"}

\* C2: while no error has occurred the feed is a sequence of stage blocks
\* start progress* complete that never overlap, the progress events carry
\* the name of the open stage, and a successful transfer() has exactly one
\* start and one complete of every stage.
C2_OneBlockPerStage ==
    /\ firstRaised = NoError => WellNested(progressStream)
    /\ pc = "succeeded" =>
          \A name \in Stages :
              EventCount("start", name) = 1 /\ EventCount("complete", name) = 1

C2_Witness ==
    /\ pc = "succeeded"
    /\ \E name \in StreamStages : EventCount("progress", name) = 2

\* C3: once integrityCheck() has returned false, transfer() throws and no
\* stage runs: no start event, no stream factory invoked, no counter.
C3_FailedCheckRunsNoStage ==
    isValidTransfer = "invalid" =>
        /\ pc \in {"integrity_done", "failed"}
        /\ pc = "failed" => thrown = UnableToTransferError
        /\ \A name \in Stages : EventCount("start", name) = 0
        /\ factoryCalls = {}
        /\ transferProgress = <<>>
        /\ \A name \in Stages : recorded[name] = EmptyBag

C3_Witness ==
    /\ pc = "failed"
    /\ isValidTransfer = "invalid"
    /\ thrown = UnableToTransferError

\* The i-th dot-separated token of a version, as a set: empty when the
\* version has fewer tokens.
TokenAt(version, i) ==
    IF i <= Len(split(version)) THEN {split(version)[i]} ELSE {}

\* The rule of the specification for two present version strings.
VersionRule(strategy, sVersion, dVersion) ==
    \/ strategy = "ignore"
    \/ strategy = "exact" /\ sVersion = dVersion
    \/ strategy = "major" /\ TokenAt(sVersion, 1) = TokenAt(dVersion, 1)
    \/ strategy = "minor" /\ \A i \in 1..2 : TokenAt(sVersion, i) = TokenAt(dVersion, i)
    \/ strategy = "patch" /\ \A i \in 1..3 : TokenAt(sVersion, i) = TokenAt(dVersion, i)

\* C4: for present version strings the version check passes exactly when
\* the rule of the strategy holds, strings of fewer than three tokens
\* included.
C4_VersionRule ==
    (versionCheck # "unchecked" /\ sourceVersion # NoVersion /\ destinationVersion # NoVersion)
        => (versionCheck = "pass"
               <=> VersionRule(options.versionMatching, sourceVersion, destinationVersion))

\* Either getMetadata() yielded nothing, or a version is absent.
MetadataAbsent ==
    \/ ~sourceMetadata.exists
    \/ ~destinationMetadata.exists
    \/ sourceMetadata.version = NoVersion
    \/ destinationMetadata.version = NoVersion

\* C5: when integrityCheck() has returned with metadata or a version
\* absent on either side, it returned success whatever the strategy, and
\* the next step of transfer() enters the first stage.
C5_Step ==
    (pc = "integrity_done" /\ MetadataAbsent)
        => (isValidTransfer = "valid" /\ pc' = "stage_source" /\ stage' = "schemas")

C5_AbsentMetadataPasses == [][C5_Step]_vars

C5_Witness ==
    /\ pc = "integrity_done"
    /\ ~sourceMetadata.exists
    /\ destinationMetadata.version = V123
    /\ options.versionMatching = "exact"
    /\ isValidTransfer = "valid"

\* The stage function has looked at both streams it asked for.
StreamsChecked ==
    /\ inStream # "unset"
    /\ outStream # "unset"
    /\ pc # "stage_check"

IsMissing(side) == IF side = "source" THEN inStream = "missing" ELSE outStream = "missing"

\* The stage failed on a missing stream before anything flowed.
FailedBeforeStart(error) ==
    /\ pc = "failed"
    /\ thrown = error
    /\ EventCount("start", stage) = 0
    /\ recorded[stage] = EmptyBag
    /\ acknowledged[stage] = EmptyBag
    /\ stage \notin DOMAIN transferProgress

\* C6 as the specification states it: for each side whose stream is
\* absent the stage fails with the error naming the stage and that side.
C6_EachAbsentSideNamed ==
    StreamsChecked =>
        \A side \in Sides :
            IsMissing(side) => FailedBeforeStart(MissingStreamError(stage, side))

\* C6, amended: with a stream absent the stage fails before anything
\* flows, with the error naming the stage and the source when the source
\* stream is absent, and the destination when only its stream is absent.
C6_AbsentSideNamedSourceFirst ==
    (StreamsChecked /\ \E side \in Sides : IsMissing(side)) =>
        FailedBeforeStart(MissingStreamError(stage,
            IF inStream = "missing" THEN "source" ELSE "destination"))

C6_Witness ==
    /\ pc = "failed"
    /\ stage = "links"
    /\ inStream = "missing"
    /\ outStream = "missing"
    /\ thrown = MissingStreamError("links", "source")

ProgressCount(name) ==
    IF name \in DOMAIN transferProgress THEN transferProgress[name].count ELSE 0

ProgressBytes(name) ==
    IF name \in DOMAIN transferProgress THEN transferProgress[name].bytes ELSE 0

\* The sum of the serialized sizes of the items of a bag.
BagBytes(B) ==
    SumOver(BagToSet(B), [item \in BagToSet(B) |-> B[item] * JSONLength(item)])

\* C7 as the specification states it: in every state the counters of a
\* stage are the number and the sizes of the items the destination has
\* acknowledged.
C7_CountsAcknowledged ==
    \A name \in Stages :
        /\ ProgressCount(name) = BagCardinality(acknowledged[name])
        /\ ProgressBytes(name) = BagBytes(acknowledged[name])

\* C7, amended: the counters of a stage are the number and the sizes of
\* the items that passed its count recorder; the acknowledged items are
\* among them, and are all of them once the sink has closed after
\* draining the stage.
C7_CountsRecorded ==
    \A name \in Stages :
        /\ ProgressCount(name) = BagCardinality(recorded[name])
        /\ ProgressBytes(name) = BagBytes(recorded[name])
        /\ acknowledged[name] \sqsubseteq recorded[name]
        /\ (name # stage \/ dstState = "closed") => acknowledged[name] = recorded[name]

C7_Witness ==
    /\ dstState = "errored"
    /\ ProgressCount("entities") = 2
    /\ BagCardinality(acknowledged["entities"]) = 1
    /\ ProgressCount("schemas") = 0

Aggregates(name) ==
    IF name \in DOMAIN transferProgress /\ "aggregates" \in DOMAIN transferProgress[name]
    THEN transferProgress[name].aggregates
    ELSE <<>>

\* The recorded items of a stage that carry the key, and those among them
\* with a given key value.
Carrying(name, key) ==
    LET B == recorded[name]
        S == {item \in BagToSet(B) : key \in DOMAIN item}
    IN [item \in S |-> B[item]]

CarryingValue(name, key, value) ==
    LET B == recorded[name]
        S == {item \in BagToSet(B) : key \in DOMAIN item /\ item[key] = value}
    IN [item \in S |-> B[item]]

KeyValues(name, key) == {item[key] : item \in DOMAIN Carrying(name, key)}

\* C8: the aggregate buckets of the entities are exactly the `type`
\* values of the recorded entities that carry the key, each bucket counts
\* the entities of its value and their sizes, so the buckets sum to the
\* entities carrying the key; the other stages have no buckets.
C8_AggregatesPartitionTyped ==
    LET buckets == Aggregates("entities")
    IN /\ DOMAIN buckets = KeyValues("entities", "type")
       /\ \A value \in DOMAIN buckets :
             /\ buckets[value].count = BagCardinality(CarryingValue("entities", "type", value))
             /\ buckets[value].bytes = BagBytes(CarryingValue("entities", "type", value))
       /\ SumOver(DOMAIN buckets, [value \in DOMAIN buckets |-> buckets[value].count])
             = BagCardinality(Carrying("entities", "type"))
       /\ SumOver(DOMAIN buckets, [value \in DOMAIN buckets |-> buckets[value].bytes])
             = BagBytes(Carrying("entities", "type"))
       /\ \A name \in Stages \ {"entities"} :
             name \in DOMAIN transferProgress
                 => "aggregates" \notin DOMAIN transferProgress[name]

C8_Witness ==
    /\ DOMAIN Aggregates("entities") = {"a", "b"}
    /\ ProgressCount("entities") = 2

\* C9: a stage named in options.exclude is skipped: no event of it on
\* the feed, no stream factory of it invoked, no counter of it.
C9_ExcludedStageSkipped ==
    \A name \in options.exclude :
        /\ \A i \in DOMAIN progressStream : progressStream[i].name # name
        /\ \A side \in Sides : <<name, side>> \notin factoryCalls
        /\ name \notin DOMAIN transferProgress

IsVersionError(error) == Len(error) = 2 /\ error[1] = "versions do not match"

\* C10 as the specification states it: when transfer() is over and an
\* error was raised in it, transfer() rejected with that same error.
C10_SameErrorReachesCaller ==
    (firstRaised # NoError /\ pc \in {"succeeded", "failed"})
        => (pc = "failed" /\ thrown = firstRaised)

\* C10, amended: when transfer() is over and an error was raised in it,
\* transfer() rejected, with that same error unless it is the version
\* error, which integrityCheck() catches and transfer() replaces by its
\* own; a stage promise is rejected with the first error of the stage.
C10_ErrorReachesCaller ==
    /\ (firstRaised # NoError /\ pc \in {"succeeded", "failed"})
          => /\ pc = "failed"
             /\ thrown = IF IsVersionError(firstRaised) THEN UnableToTransferError
                         ELSE firstRaised
    /\ pc = "failed" => firstRaised # NoError
    /\ stagePromise = "rejected" => stageError = firstRaised

C10_Witness ==
    /\ pc = "failed"
    /\ srcState = "errored"
    /\ dstState = "errored_closed"
    /\ thrown = ProviderError("stream", "source")


\* The stages transfer() runs after the stage `name`.
LaterStages(name) ==
    {StageOrder[i] : i \in {j \in 1..Len(StageOrder) : j > IndexOf(name)}}

\* A stage of transfer() has failed: its function threw, or its promise
\* was rejected.
StageFailed ==
    \/ stagePromise = "rejected"
    \/ pc = "failed" /\ stage # "none"

\* C11: from the failure of a stage on, transfer() is failed or about to
\* rethrow, it never gets to a later stage, to close or to its results:
\* no stream factory of a later stage is invoked and no start event of a
\* later stage is on the feed.
C11_FailedStageEndsTransfer ==
    StageFailed =>
        /\ pc \in {"stage_streaming", "failed"}
        /\ pc = "failed" => thrown # NoError
        /\ closeOps = Idle
        /\ \A name \in LaterStages(stage) :
              /\ EventCount("start", name) = 0
              /\ \A side \in Sides : <<name, side>> \notin factoryCalls

C11_Witness ==
    /\ pc = "failed"
    /\ stage = "entities"
    /\ thrown = ProviderError("stream", "source")
    /\ dstState = "errored_closed"
    /\ EventCount("start", "schemas") = 1

AllStagesCompleted ==
    \A name \in Stages : EventCount("complete", name) = 1

\* C12: close() is called only once all five stages have completed, it
\* starts the close operation of both providers together (a provider
\* without one has none to start), transfer() returns only when both are
\* over, and a transfer() that failed in bootstrap, the integrity check
\* or a stage has called no close().
C12_CloseOnNormalPathOnly ==
    /\ closeOps # Idle =>
          /\ AllStagesCompleted
          /\ stage = "none"
          /\ \A side \in Sides : closeOps[side] # "idle"
    /\ pc \in {"closing", "succeeded"} => closeOps # Idle
    /\ pc = "succeeded" => \A side \in Sides : closeOps[side] \in {"absent", "done"}
    /\ (pc = "failed" /\ thrown \notin {ProviderError("close", side) : side \in Sides})
          => closeOps = Idle

C12_Witness ==
    /\ pc = "succeeded"
    /\ closeOps = [side \in Sides |-> "done"]

IsPrefix(s, t) == Len(s) <= Len(t) /\ \A i \in 1..Len(s) : s[i] = t[i]

MediaPairs ==
    \A i \in DOMAIN progressStream :
        progressStream[i] = Event("start", "media")
            => /\ i < Len(progressStream)
               /\ progressStream[i + 1] = Event("complete", "media")

\* C15: the media stage writes start(media) directly followed by
\* complete(media) and nothing else: no progress event of media, no
\* counter of media, no stream factory of media, no item, and transfer()
\* never fails in it.
C15_MediaIsNoOp ==
    /\ MediaPairs
    /\ EventCount("progress", "media") = 0
    /\ "media" \notin DOMAIN transferProgress
    /\ recorded["media"] = EmptyBag
    /\ \A side \in Sides : <<"media", side>> \notin factoryCalls
    /\ stage = "media" => (pc = "stage_media" /\ srcState = "none" /\ stagePromise = "none")
    /\ (pc \in {"stage_source", "close"} /\ stage \in LaterStages("media") \cup {"none"})
          => EventCount("complete", "media") = 1

C15_Witness ==
    /\ stage = "links"
    /\ pc = "stage_source"
    /\ EventCount("complete", "media") = 1
    /\ ProgressCount("entities") = 1

\* C16, as a step: boostrap() starts the operation of every provider that
\* has one in one step, and the integrity check begins only when every
\* operation is over.
C16_Step ==
    /\ (pc = "constructed" /\ pc' # pc)
          => \A side \in Sides : bootstrapOps'[side] \in {"absent", "running"}
    /\ (pc = "bootstrapping" /\ pc' = "integrity_source")
          => \A side \in Sides : bootstrapOps[side] \in {"absent", "done"}
    /\ pc' = "integrity_source" => pc \in {"bootstrapping", "integrity_source"}

\* C16: both bootstrap operations are started before either is awaited,
\* the first getMetadata() comes only after both are over, and a provider
\* without bootstrap raises no error.
C16_BootstrapBothThenCheck ==
    /\ [][C16_Step]_vars
    /\ [](pc = "bootstrapping" =>
            /\ \A side \in Sides : bootstrapOps[side] # "idle"
            /\ firstRaised = NoError)
    /\ []((pc = "failed" /\ thrown[1] = "provider" /\ thrown[2] = "bootstrap")
            => bootstrapOps[thrown[3]] = "failed")

C16_Witness ==
    /\ pc = "bootstrapping"
    /\ bootstrapOps = [source |-> "running", destination |-> "done"]

\* C17: the progress events of a stage on the feed are as many as its
\* counter says, and every item handed on to the sink has been counted
\* and reported before.
C17_OneEventPerCount ==
    /\ \A name \in Stages : EventCount("progress", name) = ProgressCount(name)
    /\ srcState # "none" => ProgressCount(stage) = Len(sunk) + Len(toDest)

C17_Witness ==
    /\ EventCount("progress", "entities") = 2
    /\ Len(toDest) = 1
    /\ Len(sunk) = 1


Terminal == pc \in {"succeeded", "failed"}

\* C18: under fairness every transfer() ends succeeded or failed, a
\* source error in a stage ends it failed, and a transfer() that has
\* ended stays as it ended.
C18_TransferTerminates ==
    /\ <>Terminal
    /\ [](srcState = "errored" => <>(pc = "failed"))
    /\ [][Terminal => pc' = pc]_vars

C18_Witness ==
    /\ pc = "failed"
    /\ srcState = "errored"
    /\ dstState = "open"
    /\ thrown = ProviderError("stream", "source")
    /\ Len(sunk) = 1

\* C19: once the promise of a stage is rejected there is no complete
\* event of that stage on the feed.
C19_NoCompleteAfterReject ==
    stagePromise = "rejected" => EventCount("complete", stage) = 0

\* C20: the version check passes for a present version compared with
\* itself under each of ignore, exact, major, minor and patch.
C20_Reflexive ==
    (/\ versionCheck # "unchecked"
     /\ sourceVersion # NoVersion
     /\ sourceVersion = destinationVersion
     /\ options.versionMatching \in {"ignore", "exact", "major", "minor", "patch"})
        => versionCheck = "pass"

====
